---- MODULE Spec2Model ----
(***************************************************************************)
(* RayQuery (src/src/rayquery.cpp): the ray-query compute path's G-buffer, *)
(* descriptor set, pipeline layout and pipeline, with the commands run()   *)
(* records and the device objects the calls create and release.            *)
(*                                                                         *)
(* uint32_t values are pairs <<hi, lo>> of 16-bit limbs (value             *)
(* hi * 2^16 + lo), so that arithmetic wraps modulo 2^32 exactly as in the *)
(* code.  Device objects are numbered in order of creation: handle h is    *)
(* the h-th object created, objs[h] is its kind, and 0 is VK_NULL_HANDLE.  *)
(***************************************************************************)
EXTENDS Integers, Naturals, Sequences, FiniteSets, TLC

VARIABLES
    phase,            \* "fresh" (after setup), "created", "destroyed"
    m_bufferSize,     \* uint32_t: G-buffer capacity in GeomData entries
    m_buffer,         \* nvvk::Buffer handle of the G-buffer
    m_descPool,       \* VkDescriptorPool
    m_descSetLayout,  \* VkDescriptorSetLayout
    m_descSet,        \* VkDescriptorSet
    m_pipelineLayout, \* VkPipelineLayout
    m_pipeline,       \* VkPipeline
    objs,             \* device: kind of every object created so far
    live,             \* device: handles created and not yet released
    staleUse,         \* device: non-null handles passed to a release call after their release
    bufBytes,         \* device: byte size of each buffer, a 48-bit <<top, hi, lo>>
    descWrite,        \* device: the buffer written at each binding of each descriptor set
    layoutInfo,       \* device: set layouts (set 0 first) and push-constant ranges of each pipeline layout
    cmdBuf,           \* the command buffer being recorded
    runExtents,       \* the extent passed to each run() recorded in cmdBuf
    inFlight,         \* device: dispatches submitted and still executing
    releaseLog,       \* release calls of the most recent destroy(), in call order
    lastExtent,       \* extent passed to the most recent create/update
    maxPixels,        \* largest pixel count width * height (exact, 64-bit) passed to create/update so far
    extLayouts,       \* rtDescSetLayouts as the caller passed it to create
    hostSequenced,    \* the caller has resized/destroyed only with the device idle and nothing recorded
    m_state,          \* RtxState: the per-frame state run pushes
    callerSets,       \* the caller's descriptor-set vector, as the most recent run left it
    puncWeights,      \* importance weights of the scene's punctual lights, in order
    trigWeights,      \* importance weights of the scene's triangle lights, in order
    puncLights,       \* the impSamp (ImptSampData) of each PuncLight of the built table
    trigLights,       \* the impSamp (ImptSampData) of each TrigLight of the built table
    lightInfo,        \* LightBufInfo of the built tables
    lightsBuilt       \* the tables have been built from the weights

vars == <<phase, m_bufferSize, m_buffer, m_descPool, m_descSetLayout, m_descSet,
          m_pipelineLayout, m_pipeline, objs, live, staleUse, bufBytes, descWrite,
          layoutInfo, cmdBuf, runExtents, inFlight, releaseLog, lastExtent, maxPixels,
          extLayouts, hostSequenced, m_state, callerSets, puncWeights, trigWeights,
          puncLights, trigLights, lightInfo, lightsBuilt>>

lightVars == <<puncWeights, trigWeights, puncLights, trigLights, lightInfo, lightsBuilt>>

objectVars == <<phase, m_bufferSize, m_buffer, m_descPool, m_descSetLayout, m_descSet,
                m_pipelineLayout, m_pipeline, objs, live, staleUse, bufBytes, descWrite,
                layoutInfo, cmdBuf, runExtents, inFlight, releaseLog, lastExtent, maxPixels,
                extLayouts, hostSequenced, m_state, callerSets>>

----------------------------------------------------------------------------
(* Bounds of the model *)

MaxObjs == 10     \* device objects created in one behaviour
MaxRuns == 1      \* run() calls recorded into one command buffer
MaxExt  == 2      \* caller-supplied descriptor-set layouts / descriptor sets
MaxLights == 3    \* lights of one class
MaxWeight == 2    \* importance weight of one light

----------------------------------------------------------------------------
(* uint32_t arithmetic *)

Limb == 2^16

VK_NULL_HANDLE == 0

GROUP_SIZE == 8

SizeofGeomData == 64

SizeofRtxState == 52

eGbuffer == 0

U32(hi, lo) == <<hi, lo>>

Zero32 == U32(0, 0)

\* a + b in uint32_t
Add32(a, b) ==
    LET lo == a[2] + b[2]
    IN  U32((a[1] + b[1] + (lo \div Limb)) % Limb, lo % Limb)

\* the exact product of two 16-bit limbs, as <<hi, lo>>
Mul16(x, y) ==
    LET x1 == x \div 256  x0 == x % 256
        y1 == y \div 256  y0 == y % 256
        mid == x1 * y0 + x0 * y1
        low == x0 * y0 + (mid % 256) * 256
    IN  U32(x1 * y1 + (mid \div 256) + (low \div Limb), low % Limb)

\* the exact 64-bit product of two uint32_t values, as four limbs, most significant first
Mul64(a, b) ==
    LET p0 == Mul16(a[2], b[2])
        p1 == Mul16(a[1], b[2])
        p2 == Mul16(a[2], b[1])
        p3 == Mul16(a[1], b[1])
        s1 == p0[1] + p1[2] + p2[2]
        s2 == p1[1] + p2[1] + p3[2] + (s1 \div Limb)
    IN  <<p3[1] + (s2 \div Limb), s2 % Limb, s1 % Limb, p0[2]>>

\* a * b in uint32_t: the low 32 bits of the product
Mul32(a, b) == U32(Mul64(a, b)[3], Mul64(a, b)[4])

\* a uint32_t value as a 64-bit one
Wide(a) == <<0, 0, a[1], a[2]>>

\* comparison of 64-bit values
Gt64(s, t) == \E i \in 1..4 : s[i] > t[i] /\ \A j \in 1..(i - 1) : s[j] = t[j]

Ge64(s, t) == s = t \/ Gt64(s, t)

Max64(s, t) == IF Gt64(t, s) THEN t ELSE s

\* a / d in uint32_t, for a small divisor d
Div32(a, d) ==
    LET r == a[1] % d
    IN  U32(a[1] \div d, (r * Limb + a[2]) \div d)

Mod32(a, d) == ((a[1] % d) * Limb + a[2]) % d

Gt32(a, b) == a[1] > b[1] \/ (a[1] = b[1] /\ a[2] > b[2])

Ge32(a, b) == a = b \/ Gt32(a, b)

\* createBuffer called with the entry count in place of the byte count
SizeBytesNoSizeof(n) == <<0, n[1], n[2]>>

\* sizeof(GeomData) * n as a VkDeviceSize: no wrap, <<top, hi, lo>> in 16-bit limbs
SizeBytes(n) ==
    LET lo == SizeofGeomData * n[2]
        hi == SizeofGeomData * n[1] + (lo \div Limb)
    IN  <<hi \div Limb, hi % Limb, lo % Limb>>

\* the number of GeomData entries a buffer of the given byte size holds
EntriesOf(bytes) ==
    LET hi == bytes[1] * Limb + bytes[2]
    IN  U32(hi \div SizeofGeomData, ((hi % SizeofGeomData) * Limb + bytes[3]) \div SizeofGeomData)

----------------------------------------------------------------------------
(* Inputs *)

\* extents the window system hands to create/update: <<width, height>>
Extents ==
    { <<U32(0, 1), U32(0, 2)>>,  <<U32(0, 3), U32(0, 3)>>,
      <<U32(1, 0), U32(0, 3)>>,  <<U32(1, 0), U32(1, 0)>> }

\* extents handed to run: <<width, height>>
RunExtents ==
    { <<U32(0, 800), U32(0, 600)>>,  <<U32(0, 801), U32(65535, 65528)>>,
      <<U32(65535, 65529), U32(0, 0)>> }

\* the caller's own descriptor-set layouts (base 0) or descriptor sets (base 10), in
\* the caller's order: external handles are written as negative numbers
ExtSeqs(base, n) == { [i \in 1..n |-> -(base + i)] }

ExtLists(base) == UNION { ExtSeqs(base, n) : n \in 0..MaxExt }

----------------------------------------------------------------------------
(* The device and the allocator *)

Range(s) == { s[i] : i \in 1..Len(s) }

\* release calls that free nothing
LiveAfterLeak(lv, hs) == lv

\* live handles after the release calls on hs (vkDestroy* of VK_NULL_HANDLE does nothing)
LiveAfter(lv, hs) == lv \ Range(hs)

\* handles released although no longer live: a second release of the same object
StaleAfter(st, lv, hs) == st \cup { h \in Range(hs) : h # VK_NULL_HANDLE /\ h \notin lv }

\* vkUpdateDescriptorSets with one storage-buffer write: the set's binding now names buffer
WriteDescriptor(dw, set, binding, buffer) ==
    IF set \in DOMAIN dw
    THEN [dw EXCEPT ![set] = (binding :> buffer) @@ @]
    ELSE dw @@ (set :> (binding :> buffer))

\* update() without its descriptor write
RebindSkipped(dw, set, buffer) == dw

\* the descriptor write of update(), after the buffer was reallocated
RebindAfterGrow(dw, set, buffer) == WriteDescriptor(dw, set, eGbuffer, buffer)

\* std::vector::insert at begin() in place of push_back
PushFront(list, local) == <<local>> \o list

\* std::vector::push_back of the local layout (create) or the local set (run)
PushBack(list, local) == Append(list, local)

\* update() reallocating whenever the size differs
NeedsGrowOnChange(n, capacity) == n # capacity

\* the test of update(): the requested entry count exceeds the capacity
NeedsGrow(n, capacity) == Gt32(n, capacity)

\* a push-constant range of sizeof(GeomData) bytes
PushConstantRangeGeom == [stage |-> "COMPUTE", offset |-> 0, size |-> SizeofGeomData]

\* the VkPushConstantRange of create: {VK_SHADER_STAGE_COMPUTE_BIT, 0, sizeof(RtxState)}
PushConstantRange == [stage |-> "COMPUTE", offset |-> 0, size |-> SizeofRtxState]

----------------------------------------------------------------------------
(* RayQuery *)

InitObject ==
    /\ phase = "fresh"
    /\ m_bufferSize = Zero32
    /\ m_buffer = VK_NULL_HANDLE
    /\ m_descPool = VK_NULL_HANDLE
    /\ m_descSetLayout = VK_NULL_HANDLE
    /\ m_descSet = VK_NULL_HANDLE
    /\ m_pipelineLayout = VK_NULL_HANDLE
    /\ m_pipeline = VK_NULL_HANDLE
    /\ objs = <<>>
    /\ live = {}
    /\ staleUse = {}
    /\ bufBytes = <<>>
    /\ descWrite = <<>>
    /\ layoutInfo = <<>>
    /\ cmdBuf = <<>>
    /\ runExtents = <<>>
    /\ inFlight = {}
    /\ releaseLog = <<>>
    /\ lastExtent = <<Zero32, Zero32>>
    /\ maxPixels = Wide(Zero32)
    /\ extLayouts = <<>>
    /\ hostSequenced = TRUE
    /\ m_state = [frame |-> 0]
    /\ callerSets = <<>>

\* the object after setup, in a scene whose light tables are not part of the run
Init ==
    /\ InitObject
    /\ puncWeights = <<>>
    /\ trigWeights = <<>>
    /\ puncLights = <<>>
    /\ trigLights = <<>>
    /\ lightInfo = [puncLightSize |-> 0, trigLightSize |-> 0, trigSampProb |-> 0, pad |-> 0]
    /\ lightsBuilt = FALSE

\* create(size, rtDescSetLayouts, scene); okLayout and okPipeline are the VkResults of
\* vkCreatePipelineLayout and vkCreateComputePipelines, which the code does not read
Create(size, rtDescSetLayouts, okLayout, okPipeline) ==
    /\ phase = "fresh"
    /\ Len(objs) + 7 <= MaxObjs
    /\ LET n        == Mul32(size[1], size[2])
           buffer   == Len(objs) + 1
           pool     == Len(objs) + 2
           setLay   == Len(objs) + 3
           set      == Len(objs) + 4
           layouts  == PushBack(rtDescSetLayouts, setLay)
           pipeLay  == IF okLayout THEN Len(objs) + 5 ELSE VK_NULL_HANDLE
           made1    == objs \o <<"buffer", "descPool", "descSetLayout", "descSet">>
                            \o (IF okLayout THEN <<"pipelineLayout">> ELSE <<>>)
                            \o <<"shaderModule">>
           pipeOk   == okLayout /\ okPipeline
           pipe     == IF pipeOk THEN Len(made1) + 1 ELSE VK_NULL_HANDLE
       IN  /\ m_bufferSize' = n
           /\ m_buffer' = buffer
           /\ bufBytes' = bufBytes @@ (buffer :> SizeBytes(n))
           /\ m_descPool' = pool
           /\ m_descSetLayout' = setLay
           /\ m_descSet' = set
           /\ descWrite' = WriteDescriptor(descWrite, set, eGbuffer, buffer)
           /\ m_pipelineLayout' = IF okLayout THEN pipeLay ELSE m_pipelineLayout
           /\ layoutInfo' = IF okLayout
                            THEN layoutInfo @@ (pipeLay :>
                                   [ sets |-> layouts,
                                     push |-> <<PushConstantRange>> ])
                            ELSE layoutInfo
           /\ m_pipeline' = pipe
           /\ objs' = made1 \o (IF pipeOk THEN <<"pipeline">> ELSE <<>>)
           /\ live' = live \cup ({buffer, pool, setLay, set, pipeLay, pipe} \ {VK_NULL_HANDLE})
           /\ lastExtent' = size
           /\ maxPixels' = Mul64(size[1], size[2])
           /\ extLayouts' = rtDescSetLayouts
    /\ phase' = "created"
    /\ UNCHANGED <<staleUse, cmdBuf, runExtents, inFlight, releaseLog, hostSequenced>>
    /\ UNCHANGED <<m_state, callerSets>>
    /\ UNCHANGED lightVars

\* destroy() releasing in the order pipeline, pipeline layout, pool, set layout
DestroyCallsPipelineFirst ==
    << <<"buffer", m_buffer>>, <<"pipeline", m_pipeline>>,
       <<"pipelineLayout", m_pipelineLayout>>, <<"descPool", m_descPool>>,
       <<"descSetLayout", m_descSetLayout>> >>

\* the release calls of destroy(), in program order: <<kind of object, handle passed>>
DestroyCalls ==
    << <<"buffer", m_buffer>>, <<"descPool", m_descPool>>,
       <<"descSetLayout", m_descSetLayout>>, <<"pipeline", m_pipeline>>,
       <<"pipelineLayout", m_pipelineLayout>> >>

\* destroy(); bufReset: whether the allocator's destroy(Buffer&) nulls the caller's handle
Destroy(bufReset) ==
    /\ phase \in {"created", "destroyed"}
    /\ LET calls == DestroyCalls
           hs    == [i \in 1..Len(calls) |-> calls[i][2]]
           \* destroying a pool frees the sets allocated from it
           sets  == IF m_descPool \in live THEN <<m_descSet>> ELSE <<>>
       IN  /\ live' = LiveAfter(live, hs \o sets)
           /\ staleUse' = StaleAfter(staleUse, live, hs)
           /\ releaseLog' = calls
    /\ m_buffer' = IF bufReset THEN VK_NULL_HANDLE ELSE m_buffer
    /\ m_pipelineLayout' = VK_NULL_HANDLE
    /\ m_pipeline' = VK_NULL_HANDLE
    /\ phase' = "destroyed"
    /\ hostSequenced' = (hostSequenced /\ inFlight = {} /\ cmdBuf = <<>>)
    /\ UNCHANGED <<m_bufferSize, m_descPool, m_descSetLayout, m_descSet, objs, bufBytes,
                   descWrite, layoutInfo, cmdBuf, runExtents, inFlight, lastExtent, maxPixels,
                   extLayouts>>
    /\ UNCHANGED <<m_state, callerSets>>
    /\ UNCHANGED lightVars

\* update(size)
Update(size) ==
    /\ phase = "created"
    /\ LET n == Mul32(size[1], size[2])
       IN  /\ IF NeedsGrow(n, m_bufferSize)
              THEN /\ Len(objs) + 1 <= MaxObjs
                   /\ LET buffer == Len(objs) + 1
                      IN  /\ m_bufferSize' = n
                          /\ live' = LiveAfter(live, <<m_buffer>>) \cup {buffer}
                          /\ staleUse' = StaleAfter(staleUse, live, <<m_buffer>>)
                          /\ m_buffer' = buffer
                          /\ objs' = Append(objs, "buffer")
                          /\ bufBytes' = bufBytes @@ (buffer :> SizeBytes(n))
                          /\ descWrite' = RebindAfterGrow(descWrite, m_descSet, buffer)
              ELSE UNCHANGED <<m_bufferSize, live, staleUse, m_buffer, objs, bufBytes, descWrite>>
           /\ maxPixels' = Max64(maxPixels, Mul64(size[1], size[2]))
    /\ lastExtent' = size
    /\ hostSequenced' = (hostSequenced /\ inFlight = {} /\ cmdBuf = <<>>)
    /\ UNCHANGED <<phase, m_descPool, m_descSetLayout, m_descSet, m_pipelineLayout, m_pipeline,
                   layoutInfo, cmdBuf, runExtents, inFlight, releaseLog, extLayouts>>
    /\ UNCHANGED <<m_state, callerSets>>
    /\ UNCHANGED lightVars

\* the dispatch grid of run: (size + (GROUP_SIZE - 1)) / GROUP_SIZE in uint32_t
GroupCount(d) == Div32(Add32(d, U32(0, GROUP_SIZE - 1)), GROUP_SIZE)

\* descSets taken by reference: the push_back of run reaches the caller's vector
CallerListByReference(descSets, local) == PushBack(descSets, local)

\* descSets is taken by value: the caller's vector is as it was passed
CallerListAfter(descSets, local) == descSets

\* run recording its dispatch before the binds and the push constants
RunCommandsDispatchFirst(size, descSets) ==
    LET sets == PushBack(descSets, m_descSet)
    IN  << [op |-> "Dispatch", x |-> GroupCount(size[1]), y |-> GroupCount(size[2]),
            z |-> U32(0, 1)],
           [op |-> "BindPipeline", bindPoint |-> "COMPUTE", pipeline |-> m_pipeline],
           [op |-> "BindDescriptorSets", bindPoint |-> "COMPUTE", layout |-> m_pipelineLayout,
            firstSet |-> 0, sets |-> sets],
           [op |-> "PushConstants", layout |-> m_pipelineLayout, stage |-> "COMPUTE",
            offset |-> 0, size |-> SizeofRtxState, data |-> m_state] >>

\* the vkCmd* calls of run, in program order
RunCommands(size, descSets) ==
    LET sets == PushBack(descSets, m_descSet)
    IN  << [op |-> "BindPipeline", bindPoint |-> "COMPUTE", pipeline |-> m_pipeline],
           [op |-> "BindDescriptorSets", bindPoint |-> "COMPUTE", layout |-> m_pipelineLayout,
            firstSet |-> 0, sets |-> sets],
           [op |-> "PushConstants", layout |-> m_pipelineLayout, stage |-> "COMPUTE",
            offset |-> 0, size |-> SizeofRtxState, data |-> m_state],
           [op |-> "Dispatch", x |-> GroupCount(size[1]), y |-> GroupCount(size[2]),
            z |-> U32(0, 1)] >>

\* run(cmdBuf, size, profiler, descSets)
Run(size, descSets) ==
    /\ phase = "created"
    /\ Len(runExtents) < MaxRuns
    /\ cmdBuf' = cmdBuf \o RunCommands(size, descSets)
    /\ runExtents' = Append(runExtents, size)
    /\ callerSets' = CallerListAfter(descSets, m_descSet)
    /\ UNCHANGED <<phase, m_bufferSize, m_buffer, m_descPool, m_descSetLayout, m_descSet,
                   m_pipelineLayout, m_pipeline, objs, live, staleUse, bufBytes, descWrite,
                   layoutInfo, inFlight, releaseLog, lastExtent, maxPixels, extLayouts,
                   hostSequenced, m_state>>
    /\ UNCHANGED lightVars

\* the G-buffer a recorded bind reaches on the device: binding eGbuffer of its last set
GbufferOf(cmd) == descWrite[cmd.sets[Len(cmd.sets)]][eGbuffer]

\* the caller submits the recorded command buffer to the queue
Submit ==
    /\ cmdBuf # <<>>
    /\ inFlight' = inFlight \cup
          { [gbuf |-> GbufferOf(cmdBuf[i])] :
              i \in { j \in 1..Len(cmdBuf) : cmdBuf[j].op = "BindDescriptorSets" } }
    /\ cmdBuf' = <<>>
    /\ runExtents' = <<>>
    /\ UNCHANGED <<phase, m_bufferSize, m_buffer, m_descPool, m_descSetLayout, m_descSet,
                   m_pipelineLayout, m_pipeline, objs, live, staleUse, bufBytes, descWrite,
                   layoutInfo, releaseLog, lastExtent, maxPixels, extLayouts, hostSequenced>>
    /\ UNCHANGED <<m_state, callerSets>>
    /\ UNCHANGED lightVars

\* the device finishes the submitted work (the caller's idle/wait barrier returns)
DeviceIdle ==
    /\ inFlight # {}
    /\ inFlight' = {}
    /\ UNCHANGED <<phase, m_bufferSize, m_buffer, m_descPool, m_descSetLayout, m_descSet,
                   m_pipelineLayout, m_pipeline, objs, live, staleUse, bufBytes, descWrite,
                   layoutInfo, cmdBuf, runExtents, releaseLog, lastExtent, maxPixels, extLayouts,
                   hostSequenced>>
    /\ UNCHANGED <<m_state, callerSets>>
    /\ UNCHANGED lightVars

\* the object's operations, in any order its caller may use them
Next ==
    \/ \E size \in Extents, ls \in ExtLists(0), okLayout \in BOOLEAN, okPipeline \in BOOLEAN :
          Create(size, ls, okLayout, okPipeline)
    \/ \E bufReset \in BOOLEAN : Destroy(bufReset)
    \/ \E size \in Extents : Update(size)
    \/ \E size \in RunExtents, ds \in ExtLists(10) : Run(size, ds)

Spec == Init /\ [][Next]_vars

\* the frame loop on an object whose creation succeeded, with the queue and the device
NextDevice ==
    \/ \E size \in Extents, ls \in ExtLists(0) : Create(size, ls, TRUE, TRUE)
    \/ \E bufReset \in BOOLEAN : Destroy(bufReset)
    \/ \E size \in Extents : Update(size)
    \/ \E ds \in ExtLists(10) : Run(<<U32(0, 800), U32(0, 600)>>, ds)
    \/ Submit
    \/ DeviceIdle

SpecDevice == Init /\ [][NextDevice]_vars

----------------------------------------------------------------------------
(* float values of the light records *)

\* a float has a 24-bit significand
SignificandBits == 24

\* the floats used here are 0 and those in [2^-MaxBinade, 1]
MaxBinade == 5

\* such a float is written as the integer f for which its value is f / One
One == 2^(SignificandBits - 1 + MaxBinade)

\* the binade of n / d in (0, 1]: the least e with n / d >= 2^-e
Binade(n, d) == CHOOSE e \in 0..MaxBinade : n * 2^e >= d /\ (e = 0 \/ n * 2^(e - 1) < d)

\* the float nearest to n / d, for 0 <= n <= d: the significand is n / d scaled into
\* [2^23, 2^24] and rounded to nearest (no tie arises for a denominator below 2^24)
ToFloat(n, d) ==
    IF n = 0 THEN 0
    ELSE LET e == Binade(n, d)
             m == (2 * n * 2^(e + SignificandBits - 1) + d) \div (2 * d)
         IN  m * 2^(MaxBinade - e)

\* the float that is not a number, written as a value off the scale 0..One
NaN == -1

\* n / d in float arithmetic, for 0 <= n <= d: 0.0f / 0.0f is NaN
FloatDiv(n, d) == IF d = 0 THEN NaN ELSE ToFloat(n, d)

----------------------------------------------------------------------------
(* Light Sampling Table Builder *)

RECURSIVE SumSeq(_)
SumSeq(w) == IF w = <<>> THEN 0 ELSE w[1] + SumSeq(Tail(w))

\* the weight lists of one light class: empty, or of positive total
WeightLists ==
    {<<>>} \cup { w \in UNION { [1..n -> 0..MaxWeight] : n \in 1..MaxLights } : SumSeq(w) > 0 }

\* an overfull bucket that keeps its whole weight after a pairing
NoDonate(over, gap) == over

\* the overfull bucket fills the gap of the underfull one it is paired with
Donate(over, gap) == over - gap

\* The alias method on bucket weights scaled by N * sum(w), so that the mean bucket
\* weight is mean = sum(w) and every weight is an integer: while an underfull and an
\* overfull bucket are left, the smallest underfull u is paired with the largest
\* overfull o (alias o, q = weight of u / mean) and o gives u's gap; the buckets
\* left are exactly full (alias themselves, q = 1).  acc[i] = <<alias, q * mean>>.
RECURSIVE AliasPairs(_, _, _, _)
AliasPairs(rest, todo, mean, acc) ==
    LET under == { i \in todo : rest[i] < mean }
        over  == { i \in todo : rest[i] > mean }
    IN  IF under = {} \/ over = {}
        THEN acc @@ [i \in todo |-> <<i, mean>>]
        ELSE LET u == CHOOSE i \in under : \A j \in under :
                          rest[i] < rest[j] \/ (rest[i] = rest[j] /\ i <= j)
                 o == CHOOSE i \in over : \A j \in over :
                          rest[i] > rest[j] \/ (rest[i] = rest[j] /\ i <= j)
             IN  AliasPairs([rest EXCEPT ![o] = Donate(@, mean - rest[u])],
                            todo \ {u}, mean, acc @@ (u :> <<o, rest[u]>>))

\* the alias table over the weights w: one ImptSampData per light
BuildTable(w) ==
    LET n     == Len(w)
        total == SumSeq(w)
        pairs == AliasPairs([i \in 1..n |-> n * w[i]], 1..n, total, <<>>)
    IN  [i \in 1..n |->
            [ alias    |-> pairs[i][1],
              q        |-> ToFloat(pairs[i][2], total),
              pdf      |-> ToFloat(w[i], total),
              aliasPdf |-> ToFloat(w[pairs[i][1]], total) ]]

\* the mixing probability computed without a test for lightless scenes
TrigSampProbUnguarded(puncPower, trigPower) == FloatDiv(trigPower, puncPower + trigPower)

\* the share of the triangle lights in the total power; 0 in a scene without light
TrigSampProb(puncPower, trigPower) ==
    IF puncPower + trigPower = 0 THEN 0 ELSE FloatDiv(trigPower, puncPower + trigPower)

\* the builder: both tables and the LightBufInfo record
BuildLightTables ==
    /\ ~lightsBuilt
    /\ puncLights' = BuildTable(puncWeights)
    /\ trigLights' = BuildTable(trigWeights)
    /\ lightInfo' = [ puncLightSize |-> Len(puncWeights),
                      trigLightSize |-> Len(trigWeights),
                      trigSampProb  |-> TrigSampProb(SumSeq(puncWeights), SumSeq(trigWeights)),
                      pad           |-> 0 ]
    /\ lightsBuilt' = TRUE
    /\ UNCHANGED <<puncWeights, trigWeights>>
    /\ UNCHANGED objectVars

\* a scene load: any two light lists, tables not yet built
InitLights ==
    /\ InitObject
    /\ puncWeights \in WeightLists
    /\ trigWeights \in WeightLists
    /\ puncLights = <<>>
    /\ trigLights = <<>>
    /\ lightInfo = [puncLightSize |-> 0, trigLightSize |-> 0, trigSampProb |-> 0, pad |-> 0]
    /\ lightsBuilt = FALSE

NextLights == BuildLightTables

SpecLights == InitLights /\ [][NextLights]_vars

----------------------------------------------------------------------------
(* Properties *)

Created == phase = "created"

\* width * height of an extent, in uint32_t as create and update compute it
PixelCount(size) == Mul32(size[1], size[2])

\* the number of GeomData entries of the buffer m_buffer names
GbufferEntries == EntriesOf(bufBytes[m_buffer])

\* an update has reallocated the G-buffer: the buffer of create is gone
Grew == Created /\ m_buffer > 1 /\ 1 \notin live

\* a step that returns from create or update with a capacity covering every pixel
\* count requested so far, and not below the capacity before the call
CapacityStep ==
    phase' = "created" =>
        /\ Ge64(Wide(m_bufferSize'), maxPixels')
        /\ (Created => Ge32(m_bufferSize', m_bufferSize))

\* C1: every call of create or update leaves m_bufferSize at least the largest pixel
\* count width * height requested so far, and no update lowers m_bufferSize.
C1_CapacityGrowOnly == [][CapacityStep]_vars

\* C2: after create and after every update, binding eGbuffer of the local descriptor
\* set names the buffer in m_buffer, and that buffer is live (never a destroyed one).
C2_DescriptorNamesLiveBuffer ==
    Created =>
        /\ descWrite[m_descSet][eGbuffer] = m_buffer
        /\ m_buffer \in live
        /\ objs[m_buffer] = "buffer"

\* after a grow the set names the new buffer
C2_Witness == Grew /\ descWrite[m_descSet][eGbuffer] = m_buffer /\ m_buffer \in live

\* ceil(a / d) computed without overflow: the quotient, plus one when a remainder is left
CeilDiv32(a, d) == Add32(Div32(a, d), U32(0, IF Mod32(a, d) = 0 THEN 0 ELSE 1))

\* the Dispatch command of the k-th run recorded in cmdBuf
DispatchOf(k) == cmdBuf[4 * k]

\* C3: every recorded dispatch has groupsX = ceil(width / 8), groupsY = ceil(height / 8)
\* and groupsZ = 1, for the extent its run was given.
C3_DispatchGridIsCeiling ==
    \A k \in 1..Len(runExtents) :
        /\ DispatchOf(k).op = "Dispatch"
        /\ DispatchOf(k).x = CeilDiv32(runExtents[k][1], GROUP_SIZE)
        /\ DispatchOf(k).y = CeilDiv32(runExtents[k][2], GROUP_SIZE)
        /\ DispatchOf(k).z = U32(0, 1)

\* C4: a second destroy passes no destroyed non-null handle to a release call.
C4_DoubleDestroyIsNoOp == staleUse = {}

OwnedKinds == {"buffer", "descPool", "descSetLayout", "pipeline", "pipelineLayout"}

\* a step of create, update*, destroy (the first destroy included) and what it leaves
LifecycleStep ==
    phase \in {"fresh", "created"} =>
        /\ staleUse' = {}
        /\ { h \in live' : objs'[h] = "buffer" } \subseteq {m_buffer'}
        /\ Cardinality({ h \in live' : objs'[h] = "buffer" }) <= 1
        /\ (phase' = "created" => m_buffer' \in live')
        /\ (phase' = "destroyed" => \A h \in live' : objs'[h] \notin OwnedKinds)

\* C5: in create, update*, destroy no object is released twice, the only live buffer
\* is the one in m_buffer (none leaked), and after destroy none of the object's
\* buffer, pool, set layout, pipeline and pipeline layout is live.
C5_NoLeakNoDoubleRelease == [][LifecycleStep]_vars

\* destroyed once, after an update that reallocated: every object is released
C5_Witness ==
    /\ phase = "destroyed"
    /\ staleUse = {}
    /\ Cardinality({ h \in 1..Len(objs) : objs[h] = "buffer" }) >= 2
    /\ live = {}

\* C6: while the caller resizes (and destroys) only with the device idle and before
\* recording, every executing dispatch reads a live buffer, the one in m_buffer.
C6_InFlightReadsLiveBuffer ==
    hostSequenced => \A w \in inFlight : w.gbuf \in live /\ w.gbuf = m_buffer

\* a dispatch recorded after a grow is executing against the new buffer
C6_Witness == hostSequenced /\ Grew /\ inFlight = {[gbuf |-> m_buffer]}

BindCommands == { i \in 1..Len(cmdBuf) : cmdBuf[i].op = "BindDescriptorSets" }

\* C7: the pipeline layout of create holds the caller's layouts in order and the local
\* layout at the index after them and nowhere else; every run binds from set 0 a list
\* whose last entry, and no other, is the local set; with as many external sets as
\* external layouts the local set sits at the local layout's index.
C7_LocalSetIsLast ==
    Created =>
        /\ m_pipelineLayout # VK_NULL_HANDLE =>
             LET ls == layoutInfo[m_pipelineLayout].sets
             IN  /\ Len(ls) = Len(extLayouts) + 1
                 /\ \A i \in 1..Len(ls) : ls[i] = m_descSetLayout <=> i = Len(extLayouts) + 1
                 /\ SubSeq(ls, 1, Len(extLayouts)) = extLayouts
        /\ \A c \in BindCommands :
             LET sets == cmdBuf[c].sets
             IN  /\ cmdBuf[c].firstSet = 0
                 /\ \A i \in 1..Len(sets) : sets[i] = m_descSet <=> i = Len(sets)
                 /\ sets[Len(sets)] \in live
                 /\ Len(sets) - 1 = Len(extLayouts) =>
                      \A i \in 1..Len(sets) : sets[i] = m_descSet <=> i = Len(extLayouts) + 1

\* two external layouts and a run with two external sets: the local set is set 2
C7_Witness ==
    /\ Created
    /\ m_pipelineLayout # VK_NULL_HANDLE
    /\ Len(extLayouts) = 2
    /\ \E c \in BindCommands : Len(cmdBuf[c].sets) = 3 /\ cmdBuf[c].sets[3] = m_descSet

\* the position of the release call for a kind of object in the last destroy
ReleasePos(kind) == CHOOSE i \in 1..Len(releaseLog) : releaseLog[i][1] = kind

\* C8 as stated: destroy releases the pipeline, then the pipeline layout, then the
\* descriptor pool, then the descriptor-set layout.
C8_PipelineReleasedFirst ==
    releaseLog # <<>> =>
        /\ ReleasePos("pipeline") < ReleasePos("pipelineLayout")
        /\ ReleasePos("pipelineLayout") < ReleasePos("descPool")
        /\ ReleasePos("descPool") < ReleasePos("descSetLayout")

\* C8 amended: destroy releases the G-buffer, then the descriptor pool, then the
\* descriptor-set layout, then the pipeline, then the pipeline layout.
C8_PoolReleasedFirst ==
    releaseLog # <<>> =>
        /\ [i \in 1..Len(releaseLog) |-> releaseLog[i][1]]
             = <<"buffer", "descPool", "descSetLayout", "pipeline", "pipelineLayout">>
        /\ ReleasePos("descPool") < ReleasePos("descSetLayout")
        /\ ReleasePos("descSetLayout") < ReleasePos("pipeline")
        /\ ReleasePos("pipeline") < ReleasePos("pipelineLayout")

\* a destroy of a fully created object: five non-null handles released
C8_Witness ==
    /\ phase = "destroyed"
    /\ Len(releaseLog) = 5
    /\ \A i \in 1..5 : releaseLog[i][2] # VK_NULL_HANDLE
    /\ live = {}

\* C9: create never returns normally with a null pipeline or pipeline layout.
C9_FailureIsFatal ==
    Created => m_pipelineLayout # VK_NULL_HANDLE /\ m_pipeline # VK_NULL_HANDLE

PushCommands == { i \in 1..Len(cmdBuf) : cmdBuf[i].op = "PushConstants" }

\* C11: every pipeline layout create built declares exactly one push-constant range,
\* sizeof(RtxState) bytes at offset 0 for the compute stage; every run pushes with the
\* compute stage, offset 0 and sizeof(RtxState) bytes through the layout handle create
\* stored, and the pushed range is the declared range of that layout.
C11_PushMatchesDeclaredRange ==
    /\ \A l \in DOMAIN layoutInfo :
          /\ Len(layoutInfo[l].push) = 1
          /\ layoutInfo[l].push[1].stage = "COMPUTE"
          /\ layoutInfo[l].push[1].offset = 0
          /\ layoutInfo[l].push[1].size = SizeofRtxState
    /\ Created =>
          \A c \in PushCommands :
              /\ cmdBuf[c].layout = m_pipelineLayout
              /\ cmdBuf[c].stage = "COMPUTE"
              /\ cmdBuf[c].offset = 0
              /\ cmdBuf[c].size = SizeofRtxState
              /\ cmdBuf[c].layout \in DOMAIN layoutInfo =>
                    LET r == layoutInfo[cmdBuf[c].layout].push[1]
                    IN  /\ cmdBuf[c].stage = r.stage
                        /\ cmdBuf[c].offset = r.offset
                        /\ cmdBuf[c].size = r.size

\* a run has pushed through the layout create built
C11_Witness ==
    /\ Created
    /\ \E c \in PushCommands :
          /\ cmdBuf[c].layout \in DOMAIN layoutInfo
          /\ cmdBuf[c].layout \in live
          /\ cmdBuf[c].size = layoutInfo[cmdBuf[c].layout].push[1].size

\* the alias tables built, each with its weights
BuiltTables ==
    IF lightsBuilt THEN { <<puncLights, puncWeights>>, <<trigLights, trigWeights>> } ELSE {}

\* N times the probability of drawing light i from table t, in units of 1 / One:
\* q_i + the sum of (1 - q_j) over the entries j whose alias is i
RECURSIVE SumRedirected(_, _, _)
SumRedirected(t, i, js) ==
    IF js = {} THEN 0
    ELSE LET j == CHOOSE k \in js : TRUE
         IN  (IF t[j].alias = i THEN One - t[j].q ELSE 0) + SumRedirected(t, i, js \ {j})

Mass(t, i) == t[i].q + SumRedirected(t, i, DOMAIN t)

HalfOne == 2^((SignificandBits - 1 + MaxBinade) \div 2)

Far == 2^10

\* Mass(t, i) * sum(w) - N * w_i * One: N * sum(w) * One times the difference of the
\* probability the table gives light i and w_i / sum(w); computed in two halves, and
\* cut off at -Far * HalfOne and Far * HalfOne
Deviation(t, w, i) ==
    LET total == SumSeq(w)
        top   == (Mass(t, i) \div HalfOne) * total - Len(w) * w[i] * HalfOne
        low   == (Mass(t, i) % HalfOne) * total
    IN  IF top > Far THEN Far * HalfOne
        ELSE IF top < -Far THEN -(Far * HalfOne)
        ELSE top * HalfOne + low

WellFormed(t, w) ==
    /\ Len(t) = Len(w)
    /\ \A i \in DOMAIN t : t[i].alias \in DOMAIN t /\ t[i].q \in 0..One

HalfUlp == One \div 2^(SignificandBits + 1)

IsPowerOfTwo(k) == \E e \in 0..(SignificandBits - 1) : k = 2^e

NoOpUpdateStep ==
    (/\ Created
     /\ phase' = "created"
     /\ cmdBuf' = cmdBuf
     /\ ~Gt32(PixelCount(lastExtent'), m_bufferSize))
    => /\ m_buffer' = m_buffer
       /\ m_bufferSize' = m_bufferSize
       /\ descWrite' = descWrite
       /\ objs' = objs
       /\ live' = live
       /\ staleUse' = staleUse
       /\ bufBytes' = bufBytes

\* C14: an update whose pixel count is at most the capacity changes nothing: buffer
\* handle, m_bufferSize and the set's buffer reference stay, and nothing is allocated,
\* released or written to a descriptor.
C14_UpdateWithinCapacityIsNoOp == [][NoOpUpdateStep]_vars

\* after an update to a smaller extent the buffer of create is still the G-buffer
C14_Witness ==
    /\ Created
    /\ m_buffer = 1 /\ 1 \in live
    /\ Cardinality({ h \in 1..Len(objs) : objs[h] = "buffer" }) = 1
    /\ descWrite[m_descSet][eGbuffer] = 1
    /\ Gt32(m_bufferSize, PixelCount(lastExtent))

\* a step of run (the only operation that records) appends four commands: bind
\* pipeline, bind descriptor sets (the caller's sets, then the local one), push
\* constants, dispatch
RecordStep ==
    cmdBuf' # cmdBuf /\ Len(cmdBuf') > Len(cmdBuf) =>
        LET n == Len(cmdBuf)
        IN  /\ Len(cmdBuf') = n + 4
            /\ SubSeq(cmdBuf', 1, n) = cmdBuf
            /\ [i \in 1..4 |-> cmdBuf'[n + i].op]
                 = <<"BindPipeline", "BindDescriptorSets", "PushConstants", "Dispatch">>
            /\ cmdBuf'[n + 1].pipeline = m_pipeline
            /\ LET sets == cmdBuf'[n + 2].sets
               IN  /\ sets[Len(sets)] = m_descSet
                   /\ \A i \in 1..(Len(sets) - 1) : sets[i] < 0
            /\ Len(runExtents') = Len(runExtents) + 1
            \* no dispatch before the pipeline, sets and constants of the same run
            /\ \A i \in 1..4 : cmdBuf'[n + i].op = "Dispatch" =>
                  \A o \in {"BindPipeline", "BindDescriptorSets", "PushConstants"} :
                      \E j \in 1..(i - 1) : cmdBuf'[n + j].op = o

\* C15: each run records exactly four commands in the order bind pipeline, bind the
\* descriptor-set list (caller sets followed by the local set), push constants, one
\* dispatch; the dispatch of a run comes after its three other commands.
C15_RunRecordsFourInOrder == [][RecordStep]_vars

\* a run with two caller sets has been recorded
C15_Witness ==
    /\ Len(cmdBuf) = 4
    /\ Len(runExtents) = 1
    /\ cmdBuf[2].op = "BindDescriptorSets" /\ Len(cmdBuf[2].sets) = 3
    /\ cmdBuf[4].op = "Dispatch"

\* a step of run (it alone lengthens runExtents) and what it leaves alone
RunFrameStep ==
    Len(runExtents') = Len(runExtents) + 1 =>
        /\ cmdBuf' # cmdBuf
        /\ UNCHANGED <<m_buffer, m_bufferSize, bufBytes>>
        /\ UNCHANGED <<m_descPool, m_descSetLayout, m_descSet, descWrite>>
        /\ UNCHANGED <<m_pipeline, m_pipelineLayout, layoutInfo>>
        /\ UNCHANGED m_state
        /\ UNCHANGED <<objs, live, staleUse, inFlight, phase>>
        \* the caller's vector is the list it passed: the bound list without the local set
        /\ LET sets == cmdBuf'[Len(cmdBuf')  - 2].sets
           IN  callerSets' = SubSeq(sets, 1, Len(sets) - 1)

\* C16: run changes the command buffer only: the G-buffer handle, m_bufferSize, the
\* local descriptor set and its binding, the pipeline and pipeline-layout handles, the
\* per-frame state and the caller's own descriptor-set list stay as they were, and the
\* work executing on the device is not waited for.
C16_RunChangesCommandBufferOnly == [][RunFrameStep]_vars

\* a run recorded with two caller sets while an earlier dispatch is executing
C16_Witness ==
    /\ Created
    /\ inFlight # {}
    /\ Len(cmdBuf) = 4
    /\ Len(callerSets) = 2
    /\ cmdBuf[2].sets = callerSets \o <<m_descSet>>
    /\ cmdBuf[3].data = m_state

\* C17: after create and any updates m_bufferSize is the largest pixel count
\* width * height requested so far, and the live buffer in m_buffer has
\* m_bufferSize * sizeof(GeomData) bytes.
C17_CapacityIsMaxRequested ==
    Created =>
        /\ Wide(m_bufferSize) = maxPixels
        /\ m_buffer \in live
        /\ bufBytes[m_buffer] = SizeBytes(m_bufferSize)

\* C18: for the extent of the most recent create/update the pixel count the code
\* computes in uint32_t is the product width * height, and the G-buffer holds at least
\* that many entries.
C18_PixelCountNeverWraps ==
    Created =>
        /\ Wide(PixelCount(lastExtent)) = Mul64(lastExtent[1], lastExtent[2])
        /\ Ge64(Wide(GbufferEntries), Mul64(lastExtent[1], lastExtent[2]))

====
